---- MODULE Spec2Model ----
(***************************************************************************)
(* Model of src/monitoring.py: one run of the monitoring script.           *)
(*                                                                         *)
(* The script is strictly sequential.  The model follows its control flow  *)
(* with a program counter and draws the result of every external call      *)
(* (boto3, requests, selenium) from small sets: a call either raises or    *)
(* returns a response.  Percentages are kept in hundredths of a percent    *)
(* (65.04 % is 6504) so that the thresholds compare the raw value while    *)
(* the issue text carries the value formatted to one decimal.              *)
(*                                                                         *)
(* Ghost variables (not in the program): resp is the last external         *)
(* response a step consumed, calls is the log of the steps that have       *)
(* returned, origin names for every issue record the step that appended    *)
(* it, chrome_calls / quit_calls count webdriver.Chrome() and              *)
(* driver.quit() attempts.                                                 *)
(***************************************************************************)
EXTENDS Integers, Sequences, FiniteSets, TLC

VARIABLES pc, idx, name, issues, origin, resp, calls,
          MQTT_USERNAME, MQTT_PASSWORD, driver, chrome_calls, quit_calls,
          summary, published

vars == <<pc, idx, name, issues, origin, resp, calls,
          MQTT_USERNAME, MQTT_PASSWORD, driver, chrome_calls, quit_calls,
          summary, published>>

-----------------------------------------------------------------------------
(* Bounds of the model *)

\* number of monitored instances taken from the head of all_instances
NumInst == 2
\* longest list describe_environments returns
MaxEnvs == 2
\* longest Datapoints list get_metric_statistics returns
MaxPoints == 2
\* longest Metrics list list_metrics returns
MaxMetrics == 2

-----------------------------------------------------------------------------
(* Configuration *)

CPU_THRESHOLD == 65
MEMORY_THRESHOLD == 80
DISK_THRESHOLD == 85

\* Python's None, for an unset environment variable or a missing key
NoneVal == "None"

logger_mongo_instances ==
    << "i-00e0f35f25480f647", "i-0c88e356ad88357b0", "i-070ed38555e983a39" >>
main_mongo_instances ==
    << "i-0fd0bddfa1f458b4b", "i-0b3819ce528f9cd9f", "i-051daf3ab8bc94e62" >>
mqtt_instances ==
    << "i-0424fb5cb4e35d2d6", "i-0f06227cd4a2e6e15", "i-0333631e1496b0fd1" >>

\* the instance list of monitor_ec2, cut to its first NumInst entries
all_instances ==
    SubSeq(logger_mongo_instances \o main_mongo_instances \o mqtt_instances,
           1, NumInst)

\* an InstanceId dimension that is none of the monitored instances
OtherInstance == "i-other"

-----------------------------------------------------------------------------
(* Values *)

\* a percentage p in hundredths of a percent
Pct(p) == p * 100

\* f"{v:.1f}" of a value in hundredths: rounded to tenths
Fmt1(v) ==
    LET t == (v + 5) \div 10
    IN  ToString(t \div 10) \o "." \o ToString(t % 10)

High(v) == "High (" \o Fmt1(v) \o "%)"

Issue(t, n, m, s) == [Type |-> t, Name |-> n, Metric |-> m, Status |-> s]

\* max(p["Maximum"] for p in points), points non-empty
MaxOf(points) ==
    CHOOSE v \in {points[k] : k \in 1..Len(points)} :
        \A k \in 1..Len(points) : points[k] <= v

\* characters of a mount path
Path_data == << "/", "d", "a", "t", "a" >>
Path_root == << "/" >>
Path_mnt == << "/", "m", "n", "t" >>
Path_var == << "/", "v", "a", "r" >>
Path_devel == << "/", "d", "e", "v", "e", "l" >>
Path_empty == << >>
Path_unknown == << "u", "n", "k", "n", "o", "w", "n" >>

\* path.startswith(x)
StartsWith(path, x) ==
    /\ Len(path) >= Len(x)
    /\ SubSeq(path, 1, Len(x)) = x

\* the prefixes of line 168
ExcludedPrefixes ==
    { << "/", "p", "r", "o", "c" >>, << "/", "d", "e", "v" >>,
      << "/", "s", "y", "s" >>, << "/", "r", "u", "n" >>,
      << "/", "b", "o", "o", "t" >>, << "/", "s", "n", "a", "p" >> }

\* the preference order of line 187
PreferredPaths == << Path_data, Path_root, Path_mnt >>

-----------------------------------------------------------------------------
(* Responses of the external calls *)

\* lists of length 0..n over S
SeqsUpTo(S, n) == UNION { [1..k -> S] : k \in 0..n }

\* eb.describe_environments(): raises, or returns up to MaxEnvs
\* environments with names and healths drawn from the given sets.  A missing
\* EnvironmentName or Health is NoneVal (env.get falls back to "unknown" for
\* the name and to None for the health).
BeanstalkResponses(names, healths) ==
    {[ok |-> FALSE, Environments |-> << >>]}
    \cup {[ok |-> TRUE, Environments |-> e] :
            e \in SeqsUpTo([EnvironmentName : names,
                            Status : {"Ready", "Terminated"},
                            Health : healths], MaxEnvs)}

\* the names and healths drawn in the whole run
RunEnvNames == {"env-a"}
RunHealths == {"Green", "Red"}
\* the names and healths drawn when monitor_beanstalk is checked alone
AllEnvNames == {"env-a", NoneVal}
AllHealths == {"Green", "Red", NoneVal}

\* ec2_client.describe_instances(): raises, or returns the tags of the
\* instance (the Reservations/Instances nesting is flattened: the script
\* returns the first Name tag in iteration order)
DescribeInstancesResponses(tags) ==
    {[ok |-> FALSE, Tags |-> << >>]}
    \cup {[ok |-> TRUE, Tags |-> t] : t \in SeqsUpTo(tags, 2)}

\* the tags drawn in the whole run (the instances carry no Name tag) and
\* when the EC2 check of one instance is checked alone
RunTags == {[Key |-> "Env", Value |-> "prod"]}
AllTags ==
    {[Key |-> "Name", Value |-> "mongo-node"],
     [Key |-> "Name", Value |-> "mongo-old"],
     [Key |-> "Env", Value |-> "prod"]}

\* lists of length 0..n of distinct elements of S
DistinctSeqsUpTo(S, n) ==
    {q \in SeqsUpTo(S, n) : \A i, j \in 1..Len(q) : q[i] = q[j] => i = j}

\* cw.get_metric_statistics(): raises, or returns Datapoints; a datapoint is
\* its "Maximum" value, and the values of a response are distinct
StatsResponses(values, n) ==
    {[ok |-> FALSE, Datapoints |-> << >>]}
    \cup {[ok |-> TRUE, Datapoints |-> p] : p \in DistinctSeqsUpTo(values, n)}

CpuValues ==
    {Pct(CPU_THRESHOLD) - 100, Pct(CPU_THRESHOLD), Pct(CPU_THRESHOLD) + 4}
MemValues ==
    {Pct(MEMORY_THRESHOLD) - 100, Pct(MEMORY_THRESHOLD), Pct(MEMORY_THRESHOLD) + 4}
DiskValues ==
    {Pct(DISK_THRESHOLD), Pct(DISK_THRESHOLD) + 512}

\* the statistics of a metric the script never fetches
Unfetched == [ok |-> TRUE, Datapoints |-> << >>]

\* cw.list_metrics(mem_used_percent): raises, or returns up to m metrics.
\* A metric carries its InstanceId dimension and the statistics a fetch of
\* it would return.
MemMetrics(inst_id, n) ==
    {[InstanceId |-> OtherInstance, stats |-> Unfetched]}
    \cup [InstanceId : {inst_id}, stats : StatsResponses(MemValues, n)]

MemListResponses(inst_id, m, n) ==
    {[ok |-> FALSE, Metrics |-> << >>]}
    \cup {[ok |-> TRUE, Metrics |-> ms] : ms \in SeqsUpTo(MemMetrics(inst_id, n), m)}

\* cw.list_metrics(disk_used_percent): as for memory, with the path
\* dimension (Path_empty: the metric has no path dimension)
DiskMetrics(inst_id, n) ==
    {[InstanceId |-> OtherInstance, path |-> Path_root, stats |-> Unfetched],
     [InstanceId |-> inst_id, path |-> Path_devel, stats |-> Unfetched]}
    \cup [InstanceId : {inst_id},
          path : {Path_data, Path_root, Path_mnt, Path_var, Path_empty},
          stats : StatsResponses(DiskValues, n)]

DiskListResponses(inst_id, m, n) ==
    {[ok |-> FALSE, Metrics |-> << >>]}
    \cup {[ok |-> TRUE, Metrics |-> ms] : ms \in SeqsUpTo(DiskMetrics(inst_id, n), m)}

\* requests.get(): raises, or returns a status code and a body
Text_digits == << "1", "7" >>
Text_padded == << " ", "1", "7", "\n" >>
Text_word == << "o", "k" >>

FotaResponses ==
    {[ok |-> FALSE, status_code |-> 0, text |-> << >>]}
    \cup [ok : {TRUE}, status_code : {200, 500},
          text : {Text_digits, Text_padded, Text_word}]

\* the browser session: the step at which it raises ("none": no step
\* raises), and whether driver.quit() raises
\* (quit is reached only with a driver: after "none" and "page")
MqttResponses ==
    [stage : {"none", "page"}, quit_ok : BOOLEAN]
    \cup [stage : {"options", "chrome"}, quit_ok : {TRUE}]

\* sns.publish(): raises or returns
PublishResponses == [ok : BOOLEAN]

-----------------------------------------------------------------------------
(* The checks.  Each returns the records it appends to issues (new) and     *)
(* whether an exception leaves the function (escaped).                       *)

Result(new, escaped) == [new |-> new, escaped |-> escaped]

\* get_instance_name, lines 63-74
RECURSIVE FirstNameTag(_, _, _)
FirstNameTag(inst_id, tags, k) ==
    IF k > Len(tags) THEN inst_id
    ELSE IF tags[k].Key = "Name" THEN tags[k].Value
    ELSE FirstNameTag(inst_id, tags, k + 1)

get_instance_name(inst_id, r) ==
    IF r.ok THEN FirstNameTag(inst_id, r.Tags, 1) ELSE inst_id

\* variant of CpuCheck: the CPU block without its try/except
CpuCheck_NoCatch(nm, r) ==
    IF ~r.ok THEN Result(<< >>, TRUE)
    ELSE IF r.Datapoints # << >> /\ MaxOf(r.Datapoints) > Pct(CPU_THRESHOLD)
         THEN Result(<< Issue("EC2", nm, "CPU", High(MaxOf(r.Datapoints))) >>, FALSE)
         ELSE Result(<< >>, FALSE)

\* monitor_ec2, CPU block, lines 91-112
CpuCheck(nm, r) ==
    IF ~r.ok THEN Result(<< >>, FALSE)
    ELSE IF r.Datapoints # << >>
         THEN LET cpu == MaxOf(r.Datapoints)
              IN  IF cpu > Pct(CPU_THRESHOLD)
                  THEN Result(<< Issue("EC2", nm, "CPU", High(cpu)) >>, FALSE)
                  ELSE Result(<< >>, FALSE)
         ELSE Result(<< >>, FALSE)

\* variant of MemScan: no break after a metric with datapoints below the
\* threshold
RECURSIVE MemScan_NoBreak(_, _, _, _)
MemScan_NoBreak(nm, inst_id, metrics, k) ==
    IF k > Len(metrics) THEN [new |-> << >>, raised |-> FALSE]
    ELSE LET m == metrics[k]
         IN  IF m.InstanceId # inst_id
             THEN MemScan_NoBreak(nm, inst_id, metrics, k + 1)
             ELSE IF ~m.stats.ok THEN [new |-> << >>, raised |-> TRUE]
             ELSE IF /\ m.stats.Datapoints # << >>
                     /\ MaxOf(m.stats.Datapoints) > Pct(MEMORY_THRESHOLD)
                  THEN [new |-> << Issue("EC2", nm, "Memory",
                                         High(MaxOf(m.stats.Datapoints))) >>,
                        raised |-> FALSE]
                  ELSE MemScan_NoBreak(nm, inst_id, metrics, k + 1)

\* monitor_ec2, memory block, the loop of lines 122-148 from metric k on:
\* the records appended and whether a fetch raised
RECURSIVE MemScan(_, _, _, _)
MemScan(nm, inst_id, metrics, k) ==
    IF k > Len(metrics) THEN [new |-> << >>, raised |-> FALSE]
    ELSE LET m == metrics[k]
         IN  IF m.InstanceId # inst_id THEN MemScan(nm, inst_id, metrics, k + 1)
             ELSE IF ~m.stats.ok THEN [new |-> << >>, raised |-> TRUE]
             ELSE IF m.stats.Datapoints # << >>
                  THEN LET mem == MaxOf(m.stats.Datapoints)
                       IN  [new |-> IF mem > Pct(MEMORY_THRESHOLD)
                                    THEN << Issue("EC2", nm, "Memory", High(mem)) >>
                                    ELSE << >>,
                            raised |-> FALSE]
                  ELSE MemScan(nm, inst_id, metrics, k + 1)

\* monitor_ec2, memory block, lines 115-154
MemoryCheck(nm, inst_id, r) ==
    IF ~r.ok THEN Result(<< >>, FALSE)
    ELSE Result(MemScan(nm, inst_id, r.Metrics, 1).new, FALSE)

\* line 168
Excluded(path) == \E x \in ExcludedPrefixes : StartsWith(path, x)

\* monitor_ec2, disk block, the loop of lines 164-183 from metric k on:
\* valid_disks and whether a fetch raised
RECURSIVE DiskScan(_, _, _, _)
DiskScan(inst_id, metrics, k, valid_disks) ==
    IF k > Len(metrics) THEN [valid_disks |-> valid_disks, raised |-> FALSE]
    ELSE LET m == metrics[k]
         IN  IF m.InstanceId # inst_id \/ Excluded(m.path)
             THEN DiskScan(inst_id, metrics, k + 1, valid_disks)
             ELSE IF ~m.stats.ok THEN [valid_disks |-> valid_disks, raised |-> TRUE]
             ELSE IF m.stats.Datapoints # << >>
                  THEN DiskScan(inst_id, metrics, k + 1,
                           Append(valid_disks,
                               [path |-> IF m.path = Path_empty
                                         THEN Path_unknown ELSE m.path,
                                usage |-> MaxOf(m.stats.Datapoints)]))
                  ELSE DiskScan(inst_id, metrics, k + 1, valid_disks)

\* sorted(valid_disks, key=usage, reverse=True)[0]: the sort is stable, so
\* the first entry with the highest usage
HighestUsage(valid_disks) ==
    LET top == CHOOSE k \in 1..Len(valid_disks) :
                /\ \A j \in 1..Len(valid_disks) :
                       valid_disks[j].usage <= valid_disks[k].usage
                /\ \A j \in 1..(k - 1) :
                       valid_disks[j].usage < valid_disks[k].usage
    IN  valid_disks[top]

\* variant of Preferred: always the mount with the highest usage
Preferred_Highest(valid_disks) == HighestUsage(valid_disks)

\* lines 186-195, valid_disks non-empty
Preferred(valid_disks) ==
    LET hits == {<<j, k>> \in (1..Len(PreferredPaths)) \X (1..Len(valid_disks)) :
                    valid_disks[k].path = PreferredPaths[j]}
    IN  IF hits # {}
        THEN LET first == CHOOSE h \in hits :
                            \A g \in hits :
                                h[1] < g[1] \/ (h[1] = g[1] /\ h[2] <= g[2])
             IN  valid_disks[first[2]]
        ELSE HighestUsage(valid_disks)

\* monitor_ec2, disk block, lines 157-212
DiskCheck(nm, inst_id, r) ==
    IF ~r.ok THEN Result(<< >>, FALSE)
    ELSE LET s == DiskScan(inst_id, r.Metrics, 1, << >>)
         IN  IF s.raised THEN Result(<< >>, FALSE)
             ELSE IF s.valid_disks # << >>
                  THEN LET top == Preferred(s.valid_disks)
                       IN  IF top.usage > Pct(DISK_THRESHOLD)
                           THEN Result(<< Issue("EC2", nm, "Disk", High(top.usage)) >>,
                                       FALSE)
                           ELSE Result(<< >>, FALSE)
                  ELSE Result(<< >>, FALSE)

\* variant of HealthIssues: Terminated environments are not skipped
RECURSIVE HealthIssues_KeepTerminated(_, _)
HealthIssues_KeepTerminated(envs, k) ==
    IF k > Len(envs) THEN << >>
    ELSE LET env == envs[k]
             nm == IF env.EnvironmentName = NoneVal
                   THEN "unknown" ELSE env.EnvironmentName
         IN  IF env.Health # "Green"
             THEN << Issue("Elastic Beanstalk", nm, "Health", env.Health) >>
                  \o HealthIssues_KeepTerminated(envs, k + 1)
             ELSE HealthIssues_KeepTerminated(envs, k + 1)

\* monitor_beanstalk, the loop of lines 223-232 from environment k on
RECURSIVE HealthIssues(_, _)
HealthIssues(envs, k) ==
    IF k > Len(envs) THEN << >>
    ELSE LET env == envs[k]
             nm == IF env.EnvironmentName = NoneVal
                   THEN "unknown" ELSE env.EnvironmentName
         IN  IF env.Status = "Terminated" THEN HealthIssues(envs, k + 1)
             ELSE IF env.Health # "Green"
                  THEN << Issue("Elastic Beanstalk", nm, "Health", env.Health) >>
                       \o HealthIssues(envs, k + 1)
                  ELSE HealthIssues(envs, k + 1)

\* monitor_beanstalk, lines 219-235
BeanstalkCheck(r) ==
    IF r.ok THEN Result(HealthIssues(r.Environments, 1), FALSE)
    ELSE Result(<< Issue("Elastic Beanstalk", "-", "Error",
                         "describe_environments failed") >>, FALSE)

\* str.strip() and str.isdigit() of line 241
Whitespace == {" ", "\n"}
Digits == {"0", "1", "2", "3", "4", "5", "6", "7", "8", "9"}

RECURSIVE LStrip(_)
LStrip(t) ==
    IF t # << >> /\ Head(t) \in Whitespace THEN LStrip(Tail(t)) ELSE t

RECURSIVE RStrip(_)
RStrip(t) ==
    IF t # << >> /\ t[Len(t)] \in Whitespace
    THEN RStrip(SubSeq(t, 1, Len(t) - 1)) ELSE t

Strip(t) == RStrip(LStrip(t))

IsDigit(t) == t # << >> /\ \A k \in 1..Len(t) : t[k] \in Digits

\* variant of FotaCheck: a failed request is printed only
FotaCheck_Silent(r) ==
    IF ~r.ok THEN Result(<< >>, FALSE)
    ELSE IF r.status_code = 200 /\ IsDigit(Strip(r.text))
         THEN Result(<< >>, FALSE)
         ELSE Result(<< Issue("FOTA API", "fota.kazam.in/time", "Response",
                              "Invalid") >>, FALSE)

\* check_fota_api, lines 237-248
FotaCheck(r) ==
    IF ~r.ok
    THEN Result(<< Issue("FOTA API", "fota.kazam.in/time", "Exception",
                         "request failed") >>, FALSE)
    ELSE IF r.status_code = 200 /\ IsDigit(Strip(r.text))
         THEN Result(<< >>, FALSE)
         ELSE Result(<< Issue("FOTA API", "fota.kazam.in/time", "Response",
                              "Invalid") >>, FALSE)

\* "not MQTT_USERNAME": None and "" are falsy
Falsy(v) == v = NoneVal \/ v = ""

\* variant of MqttCheck: driver.quit() on the success path only
MqttCheck_QuitOnSuccessOnly(username, password, r) ==
    IF Falsy(username) \/ Falsy(password)
    THEN [new |-> << >>, escaped |-> FALSE, chrome |-> 0,
          driver |-> "None", quit |-> 0]
    ELSE [new |-> IF r.stage # "none"
                  THEN << Issue("MQTT Node", "All", "Connection",
                                "Failed: WebDriverException") >>
                  ELSE << >>,
          escaped |-> FALSE,
          chrome |-> IF r.stage = "options" THEN 0 ELSE 1,
          driver |-> IF r.stage \in {"none", "page"} THEN "created" ELSE "None",
          quit |-> IF r.stage = "none" THEN 1 ELSE 0]

\* monitor_mqtt_nodes, lines 250-300: besides new and escaped, whether
\* webdriver.Chrome() was called (chrome), the driver afterwards and the
\* number of driver.quit() calls (quit)
MqttCheck(username, password, r) ==
    IF Falsy(username) \/ Falsy(password)
    THEN [new |-> << >>, escaped |-> FALSE, chrome |-> 0,
          driver |-> "None", quit |-> 0]
    ELSE LET created == r.stage \in {"none", "page"}
         IN  [new |-> IF r.stage # "none"
                      THEN << Issue("MQTT Node", "All", "Connection",
                                    "Failed: WebDriverException") >>
                      ELSE << >>,
              escaped |-> FALSE,
              chrome |-> IF r.stage = "options" THEN 0 ELSE 1,
              driver |-> IF created THEN "created" ELSE "None",
              quit |-> IF created THEN 1 ELSE 0]

\* variant of Filtered: FOTA API records are dropped too
RECURSIVE Filtered_DropFota(_)
Filtered_DropFota(iss) ==
    IF iss = << >> THEN << >>
    ELSE IF Head(iss).Type \notin {"MQTT Node", "FOTA API"}
         THEN << Head(iss) >> \o Filtered_DropFota(Tail(iss))
         ELSE Filtered_DropFota(Tail(iss))

\* line 342, and the comprehension of line 307
RECURSIVE Filtered(_)
Filtered(iss) ==
    IF iss = << >> THEN << >>
    ELSE IF Head(iss).Type # "MQTT Node"
         THEN << Head(iss) >> \o Filtered(Tail(iss))
         ELSE Filtered(Tail(iss))

\* print_summary, lines 302-308: what it prints
SummaryOf(iss) ==
    IF iss = << >> THEN [kind |-> "healthy", rows |-> << >>]
    ELSE [kind |-> "table", rows |-> Filtered(iss)]

\* lines 343-347
SubjectOf(iss) ==
    LET filtered == Filtered(iss)
    IN  IF filtered # << >>
        THEN [text |-> "Issues Detected", n |-> Len(filtered)]
        ELSE [text |-> "All Systems Healthy", n |-> 0]

\* line 317
UrgencyOf(iss) == IF iss # << >> THEN "high" ELSE "normal"

-----------------------------------------------------------------------------
(* The run *)

Entry(fn, inst, step) == [fn |-> fn, inst |-> inst, step |-> step]

\* variant of After: check_fota_api is called before monitor_ec2
After_FotaFirst(fn) ==
    CASE fn = "monitor_beanstalk" -> "check_fota_api"
      [] fn = "check_fota_api" -> "get_instance_name"
      [] fn = "monitor_ec2" -> "monitor_mqtt_nodes"
      [] fn = "monitor_mqtt_nodes" -> "print_summary"
      [] fn = "print_summary" -> "send_sns"
      [] OTHER -> "done"

\* the main block, lines 332-348: where control goes when a function returns
After(fn) ==
    CASE fn = "monitor_beanstalk" -> "get_instance_name"
      [] fn = "monitor_ec2" -> "check_fota_api"
      [] fn = "check_fota_api" -> "monitor_mqtt_nodes"
      [] fn = "monitor_mqtt_nodes" -> "print_summary"
      [] fn = "print_summary" -> "send_sns"
      [] OTHER -> "done"

\* an exception that leaves a function ends the script with a traceback
Goto(res, next) == IF res.escaped THEN "aborted" ELSE next

\* variant of SnsNext: a failed publish is tried again
SnsNext_Retry(r) == IF r.ok THEN "done" ELSE "send_sns"

\* send_sns, lines 310-322: the except clause swallows a failed publish
SnsNext(r) == "done"

\* a step returns: its records are appended to issues
Finish(entry, res, call, r) ==
    /\ issues' = issues \o res.new
    /\ origin' = origin \o [k \in 1..Len(res.new) |-> entry]
    /\ calls' = Append(calls, entry)
    /\ resp' = [call |-> call, r |-> r]

Init ==
    /\ pc = "monitor_beanstalk"
    /\ idx = 1
    /\ name = NoneVal
    /\ issues = << >>
    /\ origin = << >>
    /\ resp = [call |-> "none", r |-> [ok |-> TRUE]]
    /\ calls = << >>
    /\ \E c \in {<<NoneVal, "secret">>, <<"admin", "">>, <<"admin", "secret">>} :
         /\ MQTT_USERNAME = c[1]
         /\ MQTT_PASSWORD = c[2]
    /\ driver = "None"
    /\ chrome_calls = 0
    /\ quit_calls = 0
    /\ summary = [kind |-> "none", rows |-> << >>]
    /\ published = << >>

MonitorBeanstalk(names, healths) ==
    /\ pc = "monitor_beanstalk"
    /\ \E r \in BeanstalkResponses(names, healths) :
         LET res == BeanstalkCheck(r)
         IN  /\ Finish(Entry("monitor_beanstalk", 0, "-"), res,
                       "describe_environments", r)
             /\ pc' = Goto(res, After("monitor_beanstalk"))
    /\ UNCHANGED <<idx, name, MQTT_USERNAME, MQTT_PASSWORD, driver,
                   chrome_calls, quit_calls, summary, published>>

GetInstanceName(tags) ==
    /\ pc = "get_instance_name"
    /\ \E r \in DescribeInstancesResponses(tags) :
         /\ name' = get_instance_name(all_instances[idx], r)
         /\ Finish(Entry("monitor_ec2", idx, "name"), Result(<< >>, FALSE),
                   "describe_instances", r)
    /\ pc' = "cpu"
    /\ UNCHANGED <<idx, MQTT_USERNAME, MQTT_PASSWORD, driver,
                   chrome_calls, quit_calls, summary, published>>

Ec2Cpu ==
    /\ pc = "cpu"
    /\ \E r \in StatsResponses(CpuValues, MaxPoints) :
         LET res == CpuCheck(name, r)
         IN  /\ Finish(Entry("monitor_ec2", idx, "CPU"), res, "cpu", r)
             /\ pc' = Goto(res, "memory")
    /\ UNCHANGED <<idx, name, MQTT_USERNAME, MQTT_PASSWORD, driver,
                   chrome_calls, quit_calls, summary, published>>

\* m, n: the longest Metrics and Datapoints lists drawn
Ec2Memory(m, n) ==
    /\ pc = "memory"
    /\ \E r \in MemListResponses(all_instances[idx], m, n) :
         LET res == MemoryCheck(name, all_instances[idx], r)
         IN  /\ Finish(Entry("monitor_ec2", idx, "Memory"), res, "memory", r)
             /\ pc' = Goto(res, "disk")
    /\ UNCHANGED <<idx, name, MQTT_USERNAME, MQTT_PASSWORD, driver,
                   chrome_calls, quit_calls, summary, published>>

\* the disk block ends the loop body: next instance, or monitor_ec2 returns
Ec2Disk(m, n) ==
    /\ pc = "disk"
    /\ \E r \in DiskListResponses(all_instances[idx], m, n) :
         LET res == DiskCheck(name, all_instances[idx], r)
         IN  /\ Finish(Entry("monitor_ec2", idx, "Disk"), res, "disk", r)
             /\ pc' = Goto(res, IF idx < Len(all_instances)
                                THEN "get_instance_name"
                                ELSE After("monitor_ec2"))
    /\ idx' = IF idx < Len(all_instances) THEN idx + 1 ELSE idx
    /\ UNCHANGED <<name, MQTT_USERNAME, MQTT_PASSWORD, driver,
                   chrome_calls, quit_calls, summary, published>>

CheckFotaApi ==
    /\ pc = "check_fota_api"
    /\ \E r \in FotaResponses :
         LET res == FotaCheck(r)
         IN  /\ Finish(Entry("check_fota_api", 0, "-"), res, "fota", r)
             /\ pc' = Goto(res, After("check_fota_api"))
    /\ UNCHANGED <<idx, name, MQTT_USERNAME, MQTT_PASSWORD, driver,
                   chrome_calls, quit_calls, summary, published>>

MonitorMqttNodes ==
    /\ pc = "monitor_mqtt_nodes"
    /\ \E r \in MqttResponses :
         LET res == MqttCheck(MQTT_USERNAME, MQTT_PASSWORD, r)
         IN  /\ Finish(Entry("monitor_mqtt_nodes", 0, "-"), res, "mqtt", r)
             /\ pc' = Goto(res, After("monitor_mqtt_nodes"))
             /\ driver' = res.driver
             /\ chrome_calls' = chrome_calls + res.chrome
             /\ quit_calls' = quit_calls + res.quit
    /\ UNCHANGED <<idx, name, MQTT_USERNAME, MQTT_PASSWORD, summary, published>>

PrintSummary ==
    /\ pc = "print_summary"
    /\ summary' = SummaryOf(issues)
    /\ Finish(Entry("print_summary", 0, "-"), Result(<< >>, FALSE),
              "print_summary", [ok |-> TRUE])
    /\ pc' = After("print_summary")
    /\ UNCHANGED <<idx, name, MQTT_USERNAME, MQTT_PASSWORD, driver,
                   chrome_calls, quit_calls, published>>

\* lines 342-348 and send_sns
SendSns ==
    /\ pc = "send_sns"
    /\ \E r \in PublishResponses :
         /\ published' = Append(published,
                [Subject |-> SubjectOf(issues), urgency |-> UrgencyOf(issues),
                 ok |-> r.ok])
         /\ Finish(Entry("sns.publish", 0, "-"), Result(<< >>, FALSE),
                   "publish", r)
         /\ pc' = SnsNext(r)
    /\ UNCHANGED <<idx, name, MQTT_USERNAME, MQTT_PASSWORD, driver,
                   chrome_calls, quit_calls, summary>>

Next ==
    \/ MonitorBeanstalk(RunEnvNames, RunHealths)
    \/ GetInstanceName(RunTags)
    \/ Ec2Cpu
    \/ Ec2Memory(1, 1)
    \/ Ec2Disk(1, 1)
    \/ CheckFotaApi
    \/ MonitorMqttNodes
    \/ PrintSummary
    \/ SendSns

Spec == Init /\ [][Next]_vars

-----------------------------------------------------------------------------
(* One check alone, under every response within the bounds *)

\* monitor_beanstalk, from the start of the run
NextBeanstalk == MonitorBeanstalk(AllEnvNames, AllHealths)

SpecBeanstalk == Init /\ [][NextBeanstalk]_vars

\* the state in which monitor_ec2 is entered when every environment was
\* healthy
InitEc2 ==
    /\ pc = "get_instance_name"
    /\ idx = 1
    /\ name = NoneVal
    /\ issues = << >>
    /\ origin = << >>
    /\ resp = [call |-> "describe_environments",
               r |-> [ok |-> TRUE, Environments |-> << >>]]
    /\ calls = << Entry("monitor_beanstalk", 0, "-") >>
    /\ MQTT_USERNAME = "admin"
    /\ MQTT_PASSWORD = "secret"
    /\ driver = "None"
    /\ chrome_calls = 0
    /\ quit_calls = 0
    /\ summary = [kind |-> "none", rows |-> << >>]
    /\ published = << >>

\* the name, CPU and memory steps of the first instance
NextEc2 ==
    \/ GetInstanceName(AllTags)
    \/ Ec2Cpu
    \/ Ec2Memory(MaxMetrics, MaxPoints)

SpecEc2 == InitEc2 /\ [][NextEc2]_vars

\* the state before the disk step of the first instance when nothing was
\* found so far
InitDisk ==
    /\ pc = "disk"
    /\ idx = 1
    /\ name = all_instances[1]
    /\ issues = << >>
    /\ origin = << >>
    /\ resp = [call |-> "memory", r |-> [ok |-> TRUE, Metrics |-> << >>]]
    /\ calls = << Entry("monitor_beanstalk", 0, "-"),
                  Entry("monitor_ec2", 1, "name"),
                  Entry("monitor_ec2", 1, "CPU"),
                  Entry("monitor_ec2", 1, "Memory") >>
    /\ MQTT_USERNAME = "admin"
    /\ MQTT_PASSWORD = "secret"
    /\ driver = "None"
    /\ chrome_calls = 0
    /\ quit_calls = 0
    /\ summary = [kind |-> "none", rows |-> << >>]
    /\ published = << >>

NextDisk == Ec2Disk(MaxMetrics, MaxPoints)

SpecDisk == InitDisk /\ [][NextDisk]_vars

-----------------------------------------------------------------------------
(* Vocabulary of the properties *)

IsPrefix(q, t) == Len(q) <= Len(t) /\ SubSeq(t, 1, Len(q)) = q

\* the steps of a complete run, in program order
RECURSIVE Ec2Steps(_)
Ec2Steps(i) ==
    IF i > NumInst THEN << >>
    ELSE << Entry("monitor_ec2", i, "name"), Entry("monitor_ec2", i, "CPU"),
            Entry("monitor_ec2", i, "Memory"), Entry("monitor_ec2", i, "Disk") >>
         \o Ec2Steps(i + 1)

ExpectedCalls ==
    << Entry("monitor_beanstalk", 0, "-") >> \o Ec2Steps(1)
    \o << Entry("check_fota_api", 0, "-"), Entry("monitor_mqtt_nodes", 0, "-"),
          Entry("print_summary", 0, "-"), Entry("sns.publish", 0, "-") >>

\* the program position at which step e runs
PcOf(e) ==
    CASE e.fn = "monitor_ec2" /\ e.step = "name" -> "get_instance_name"
      [] e.fn = "monitor_ec2" /\ e.step = "CPU" -> "cpu"
      [] e.fn = "monitor_ec2" /\ e.step = "Memory" -> "memory"
      [] e.fn = "monitor_ec2" /\ e.step = "Disk" -> "disk"
      [] e.fn = "sns.publish" -> "send_sns"
      [] OTHER -> e.fn

\* the position the run is at after its first n steps
PcAfter(n) ==
    IF n < Len(ExpectedCalls) THEN PcOf(ExpectedCalls[n + 1]) ELSE "done"

\* the positions in calls of the steps of function fn
CallsOf(fn) == {k \in 1..Len(calls) : calls[k].fn = fn}

\* the step that returned last
LastCall == calls[Len(calls)]

\* the positions in issues of the records appended by step e
RecordsBy(e) == {k \in 1..Len(issues) : origin[k] = e}

\* the positions in issues of the records of a type
RecordsOfType(t) == {k \in 1..Len(issues) : issues[k].Type = t}

\* the run ended, or it can take a step
Progress == pc = "done" \/ ENABLED Next

\* the five functions the main block calls before it publishes
Returned(fn) ==
    IF fn = "monitor_ec2"
    THEN \E k \in 1..Len(calls) : calls[k] = Entry("monitor_ec2", NumInst, "Disk")
    ELSE CallsOf(fn) # {}

-----------------------------------------------------------------------------
(* C1 *)

\* C1: sns.publish is attempted at most once at any time and exactly once
\* when the run has ended, whatever the checks found; the attempt is made
\* only after monitor_beanstalk, monitor_ec2, check_fota_api,
\* monitor_mqtt_nodes and print_summary have returned; no run stops before
\* the attempt; a failed publish is not retried.
C1_PublishOnce ==
    /\ Len(published) <= 1
    /\ Len(published) = Cardinality(CallsOf("sns.publish"))
    /\ Len(published) = 1 =>
         \A fn \in {"monitor_beanstalk", "monitor_ec2", "check_fota_api",
                    "monitor_mqtt_nodes", "print_summary"} :
            /\ Returned(fn)
            /\ \A k \in CallsOf(fn) : \A j \in CallsOf("sns.publish") : k < j
    /\ pc = "done" => Len(published) = 1
    /\ pc # "aborted"
    /\ Progress

\* a run that ended with a failed publish after checks found issues
C1_Witness ==
    /\ pc = "done"
    /\ Len(published) = 1
    /\ ~published[1].ok
    /\ RecordsOfType("EC2") # {}
    /\ RecordsOfType("Elastic Beanstalk") # {}

-----------------------------------------------------------------------------
(* C3 *)

\* a call of the last step raised
Raised ==
    CASE resp.call \in {"describe_environments", "describe_instances", "cpu",
                        "fota", "publish"} -> ~resp.r.ok
      [] resp.call \in {"memory", "disk"} ->
            \/ ~resp.r.ok
            \/ \E k \in 1..Len(resp.r.Metrics) : ~resp.r.Metrics[k].stats.ok
      [] resp.call = "mqtt" -> resp.r.stage # "none" \/ ~resp.r.quit_ok
      [] OTHER -> FALSE

\* C3: an exception of an external call never aborts the run: after a step
\* in which a call raised the run is at the step that follows it in program
\* order (the next metric, the next instance, the next check), it never
\* ends with a traceback, it never stops before the end, and when it has
\* ended every step has run and the publish was attempted.
C3_ErrorsSwallowed ==
    /\ pc # "aborted"
    /\ Raised => /\ IsPrefix(calls, ExpectedCalls)
                 /\ pc = PcAfter(Len(calls))
    /\ Progress
    /\ pc = "done" => calls = ExpectedCalls /\ Len(published) = 1

\* the disk check of the first instance raised after describe_environments
\* had raised, and the run is at the second instance
C3_Witness ==
    /\ resp.call = "disk"
    /\ ~resp.r.ok
    /\ pc = "get_instance_name"
    /\ idx = 2
    /\ Len(issues) >= 1
    /\ issues[1].Metric = "Error"

-----------------------------------------------------------------------------
(* C5 *)

TypeRank(t) ==
    CASE t = "Elastic Beanstalk" -> 1
      [] t = "EC2" -> 2
      [] t = "FOTA API" -> 3
      [] t = "MQTT Node" -> 4
      [] OTHER -> 0

MetricRank(m) ==
    CASE m = "CPU" -> 1
      [] m = "Memory" -> 2
      [] m = "Disk" -> 3
      [] OTHER -> 0

\* C5: the steps run one after the other in the fixed order Beanstalk, EC2
\* (instance by instance: name, CPU, memory, disk), FOTA, MQTT, summary,
\* publish; hence in issues the records are ordered Elastic Beanstalk, EC2,
\* FOTA API, MQTT Node, and the EC2 records are in instance-list order with
\* CPU before Memory before Disk for one instance.
C5_Sequential ==
    /\ IsPrefix(calls, ExpectedCalls)
    /\ pc = PcAfter(Len(calls))
    /\ \A k \in 1..Len(issues) :
         /\ TypeRank(issues[k].Type) > 0
         /\ issues[k].Type = "EC2" <=> origin[k].fn = "monitor_ec2"
         /\ issues[k].Type = "EC2" => issues[k].Metric = origin[k].step
    /\ \A i, j \in 1..Len(issues) :
         i < j =>
           /\ TypeRank(issues[i].Type) <= TypeRank(issues[j].Type)
           /\ (issues[i].Type = "EC2" /\ issues[j].Type = "EC2") =>
                \/ origin[i].inst < origin[j].inst
                \/ /\ origin[i].inst = origin[j].inst
                   /\ MetricRank(issues[i].Metric) < MetricRank(issues[j].Metric)

\* a finished run with records of all four types, three of the first
\* instance and one of the second
C5_Witness ==
    /\ pc = "done"
    /\ \A t \in {"Elastic Beanstalk", "EC2", "FOTA API", "MQTT Node"} :
          RecordsOfType(t) # {}
    /\ \A m \in {"CPU", "Memory", "Disk"} :
          RecordsBy(Entry("monitor_ec2", 1, m)) # {}
    /\ RecordsBy(Entry("monitor_ec2", 2, "CPU")) # {}

-----------------------------------------------------------------------------
(* C10 *)

MqttEntry == Entry("monitor_mqtt_nodes", 0, "-")

\* C10: monitor_mqtt_nodes with a missing credential starts no browser and
\* appends nothing; with both credentials, a driver exists exactly when no
\* step up to webdriver.Chrome() raised, driver.quit() is then attempted
\* exactly once (on the success path and on every failure path) and
\* otherwise never, a failure before quit appends exactly one MQTT Node
\* record and a clean session none, and no failure (of quit either) leaves
\* the function: the run goes on to print_summary.
C10_Mqtt ==
    /\ chrome_calls <= 1
    /\ quit_calls <= 1
    /\ Cardinality(RecordsOfType("MQTT Node")) = Cardinality(RecordsBy(MqttEntry))
    /\ CallsOf("monitor_mqtt_nodes") = {} =>
         chrome_calls = 0 /\ quit_calls = 0 /\ RecordsBy(MqttEntry) = {}
    /\ resp.call = "mqtt" =>
         /\ pc = "print_summary"
         /\ IF MQTT_USERNAME \in {NoneVal, ""} \/ MQTT_PASSWORD \in {NoneVal, ""}
            THEN /\ chrome_calls = 0
                 /\ quit_calls = 0
                 /\ driver = "None"
                 /\ RecordsBy(MqttEntry) = {}
            ELSE /\ driver = "created" <=> resp.r.stage \notin {"options", "chrome"}
                 /\ quit_calls = IF driver = "created" THEN 1 ELSE 0
                 /\ Cardinality(RecordsBy(MqttEntry))
                      = IF resp.r.stage # "none" THEN 1 ELSE 0

\* with both credentials: a page step raised with the driver created, and
\* then driver.quit() raised too
C10_Witness ==
    /\ resp.call = "mqtt"
    /\ MQTT_USERNAME = "admin"
    /\ MQTT_PASSWORD = "secret"
    /\ resp.r.stage = "page"
    /\ ~resp.r.quit_ok
    /\ quit_calls = 1
    /\ pc = "print_summary"

-----------------------------------------------------------------------------
(* What the responses of a step call for, stated without the checks *)

\* some datapoint, hence the maximum, is above t percent
Above(points, t) == \E k \in 1..Len(points) : points[k] > Pct(t)

CpuBreach(r) ==
    r.ok /\ r.Datapoints # << >> /\ Above(r.Datapoints, CPU_THRESHOLD)

\* the memory metrics of the instance
MemMine(r, inst_id) ==
    {k \in 1..Len(r.Metrics) : r.Metrics[k].InstanceId = inst_id}

\* the memory fetches made: each metric of the instance in list order, up
\* to the first fetch that raises or returns datapoints
MemFetched(r, inst_id) ==
    {k \in MemMine(r, inst_id) :
        \A j \in MemMine(r, inst_id) :
            j < k => r.Metrics[j].stats.ok /\ r.Metrics[j].stats.Datapoints = << >>}

MemFailed(r, inst_id) ==
    ~r.ok \/ \E k \in MemFetched(r, inst_id) : ~r.Metrics[k].stats.ok

MemBreach(r, inst_id) ==
    /\ r.ok
    /\ \E k \in MemFetched(r, inst_id) :
         /\ r.Metrics[k].stats.ok
         /\ r.Metrics[k].stats.Datapoints # << >>
         /\ Above(r.Metrics[k].stats.Datapoints, MEMORY_THRESHOLD)

\* the disk metrics of the instance whose path has none of the excluded
\* prefixes
DiskMine(r, inst_id) ==
    {k \in 1..Len(r.Metrics) :
        /\ r.Metrics[k].InstanceId = inst_id
        /\ \A x \in ExcludedPrefixes : ~StartsWith(r.Metrics[k].path, x)}

\* the disk check raised: list_metrics, or the fetch of one of these metrics
DiskFailed(r, inst_id) ==
    ~r.ok \/ \E k \in DiskMine(r, inst_id) : ~r.Metrics[k].stats.ok

\* the mounts that were fetched and have datapoints
DiskFetched(r, inst_id) ==
    {k \in DiskMine(r, inst_id) :
        /\ r.Metrics[k].stats.ok
        /\ r.Metrics[k].stats.Datapoints # << >>
        /\ \A j \in DiskMine(r, inst_id) : j < k => r.Metrics[j].stats.ok}

WithPath(r, mounts, path) == {k \in mounts : r.Metrics[k].path = path}

\* the first of mounts (non-empty) in list order
FirstOf(mounts) == CHOOSE k \in mounts : \A j \in mounts : k <= j

\* the usage of the mount chosen among mounts is above the disk threshold:
\* the first present of "/data", "/", "/mnt", otherwise the mount with the
\* highest maximum usage
ChosenAbove(r, mounts) ==
    LET above(k) == Above(r.Metrics[k].stats.Datapoints, DISK_THRESHOLD)
    IN  IF WithPath(r, mounts, Path_data) # {}
        THEN above(FirstOf(WithPath(r, mounts, Path_data)))
        ELSE IF WithPath(r, mounts, Path_root) # {}
        THEN above(FirstOf(WithPath(r, mounts, Path_root)))
        ELSE IF WithPath(r, mounts, Path_mnt) # {}
        THEN above(FirstOf(WithPath(r, mounts, Path_mnt)))
        ELSE \E k \in mounts : above(k)

DiskBreach(r, inst_id) ==
    /\ ~DiskFailed(r, inst_id)
    /\ DiskFetched(r, inst_id) # {}
    /\ ChosenAbove(r, DiskFetched(r, inst_id))

\* the environments that are neither Terminated nor Green
Unhealthy(envs) ==
    {k \in 1..Len(envs) : envs[k].Status # "Terminated" /\ envs[k].Health # "Green"}

-----------------------------------------------------------------------------
(* C6 *)

\* C6: for the CPU and the memory of an instance an EC2 record is appended
\* exactly when the fetch that was evaluated (the CPU fetch; for memory the
\* first fetch of a metric of the instance that returned datapoints)
\* returned at least one datapoint and the maximum is strictly above the
\* threshold (65, 80); a maximum equal to the threshold, an empty result or
\* a raised call appends nothing; at most one record per instance and
\* metric, and the name lookup appends none.
C6_CpuMemory ==
    /\ \A i \in 1..NumInst :
         /\ RecordsBy(Entry("monitor_ec2", i, "name")) = {}
         /\ \A m \in {"CPU", "Memory"} :
              /\ Cardinality(RecordsBy(Entry("monitor_ec2", i, m))) <= 1
              /\ \A k \in RecordsBy(Entry("monitor_ec2", i, m)) :
                   issues[k].Type = "EC2" /\ issues[k].Metric = m
    /\ resp.call = "cpu" =>
         (RecordsBy(LastCall) # {} <=> CpuBreach(resp.r))
    /\ resp.call = "memory" =>
         (RecordsBy(LastCall) # {}
            <=> MemBreach(resp.r, all_instances[LastCall.inst]))

\* two memory metrics of the instance: the first has its maximum equal to
\* the threshold, the second is above it, and no record was appended
C6_Witness ==
    /\ resp.call = "memory"
    /\ resp.r.ok
    /\ Len(resp.r.Metrics) = 2
    /\ \A k \in 1..2 : resp.r.Metrics[k].InstanceId = all_instances[1]
    /\ resp.r.Metrics[1].stats.ok
    /\ resp.r.Metrics[1].stats.Datapoints = << Pct(MEMORY_THRESHOLD) >>
    /\ resp.r.Metrics[2].stats.ok
    /\ resp.r.Metrics[2].stats.Datapoints # << >>
    /\ Above(resp.r.Metrics[2].stats.Datapoints, MEMORY_THRESHOLD)
    /\ RecordsBy(LastCall) = {}

-----------------------------------------------------------------------------
(* C7 *)

\* C7 as stated: the disk verdict of an instance is that of the mount
\* chosen among its fetched mounts with datapoints, and a Disk record is
\* appended exactly when the chosen mount is above 85.
C7_Original ==
    resp.call = "disk" =>
        LET inst_id == all_instances[LastCall.inst]
        IN  Cardinality(RecordsBy(LastCall))
              = IF /\ DiskFetched(resp.r, inst_id) # {}
                   /\ ChosenAbove(resp.r, DiskFetched(resp.r, inst_id))
                THEN 1 ELSE 0

\* C7 amended: when no call of the instance's disk check raises, exactly
\* one Disk record is appended if the mount chosen (first present of
\* "/data", "/", "/mnt", otherwise highest maximum usage) is strictly above
\* 85 and none otherwise; when list_metrics or a fetch raises, none is
\* appended whatever the mounts fetched before.
C7_DiskVerdict ==
    resp.call = "disk" =>
        LET inst_id == all_instances[LastCall.inst]
        IN  /\ Cardinality(RecordsBy(LastCall))
                 = IF DiskBreach(resp.r, inst_id) THEN 1 ELSE 0
            /\ \A k \in RecordsBy(LastCall) :
                 issues[k].Type = "EC2" /\ issues[k].Metric = "Disk"

\* no call raised, "/var" is above 85 and listed first, "/" is at 85: the
\* verdict is that of "/" and no record was appended
C7_Witness ==
    /\ resp.call = "disk"
    /\ resp.r.ok
    /\ Len(resp.r.Metrics) = 2
    /\ \A k \in 1..2 : /\ resp.r.Metrics[k].InstanceId = all_instances[1]
                       /\ resp.r.Metrics[k].stats.ok
    /\ resp.r.Metrics[1].path = Path_var
    /\ resp.r.Metrics[1].stats.Datapoints # << >>
    /\ Above(resp.r.Metrics[1].stats.Datapoints, DISK_THRESHOLD)
    /\ resp.r.Metrics[2].path = Path_root
    /\ resp.r.Metrics[2].stats.Datapoints = << Pct(DISK_THRESHOLD) >>
    /\ RecordsBy(LastCall) = {}

-----------------------------------------------------------------------------
(* C8 *)

\* C8: when describe_environments succeeds, monitor_beanstalk appends, in
\* list order, exactly one Health record for each environment that is
\* neither Terminated nor Green and nothing else; when it raises, exactly
\* one Error record.
C8_Beanstalk ==
    resp.call = "describe_environments" =>
        IF resp.r.ok
        THEN LET envs == resp.r.Environments
                 u == Unhealthy(envs)
             IN  /\ Len(issues) = Cardinality(u)
                 /\ \A k \in u :
                      LET j == Cardinality({i \in u : i <= k})
                      IN  /\ issues[j].Type = "Elastic Beanstalk"
                          /\ issues[j].Metric = "Health"
                          /\ issues[j].Status = envs[k].Health
                          /\ issues[j].Name =
                               IF envs[k].EnvironmentName = NoneVal
                               THEN "unknown" ELSE envs[k].EnvironmentName
        ELSE /\ Len(issues) = 1
             /\ issues[1].Type = "Elastic Beanstalk"
             /\ issues[1].Metric = "Error"

\* a Terminated environment that is not Green is skipped and a Ready one
\* that is not Green is recorded
C8_Witness ==
    /\ resp.call = "describe_environments"
    /\ resp.r.ok
    /\ Len(resp.r.Environments) = 2
    /\ resp.r.Environments[1].Status = "Terminated"
    /\ resp.r.Environments[1].Health = "Red"
    /\ resp.r.Environments[2].Status = "Ready"
    /\ resp.r.Environments[2].Health = "Red"
    /\ Len(issues) = 1

-----------------------------------------------------------------------------
(* C2 *)

\* the records that are not MQTT Node records
NonMqtt == {k \in 1..Len(issues) : issues[k].Type # "MQTT Node"}

InRows(rec) == \E j \in 1..Len(summary.rows) : summary.rows[j] = rec

\* C2 as stated: when the run has ended, the number in the subject counts
\* every record of issues and every record is a row of the summary table.
C2_Original ==
    pc = "done" =>
        /\ published[1].Subject.n = Len(issues)
        /\ \A k \in 1..Len(issues) : InRows(issues[k])

\* C2 amended: when the run has ended, the number in the subject counts
\* every record of issues that is not an MQTT Node record, and every such
\* record is a row of the summary table, which has no other rows; MQTT Node
\* records are neither counted nor listed.
C2_Summarized ==
    pc = "done" =>
        /\ published[1].Subject.n = Cardinality(NonMqtt)
        /\ Len(summary.rows) = Cardinality(NonMqtt)
        /\ \A k \in NonMqtt : InRows(issues[k])
        /\ \A j \in 1..Len(summary.rows) : summary.rows[j].Type # "MQTT Node"
        /\ NonMqtt # {} =>
             /\ summary.kind = "table"
             /\ published[1].Subject.text = "Issues Detected"

\* a finished run with an MQTT Node record, a FOTA API record and an EC2
\* record
C2_Witness ==
    /\ pc = "done"
    /\ RecordsOfType("MQTT Node") # {}
    /\ RecordsOfType("FOTA API") # {}
    /\ RecordsOfType("EC2") # {}

-----------------------------------------------------------------------------
(* C4 *)

BothCredentials == ~Falsy(MQTT_USERNAME) /\ ~Falsy(MQTT_PASSWORD)

\* the instance of the last step
LastInstance == all_instances[LastCall.inst]

\* the last step met a breach: a metric above its threshold, an unhealthy
\* environment, an invalid FOTA response
Breach ==
    CASE resp.call = "describe_environments" ->
            resp.r.ok /\ Unhealthy(resp.r.Environments) # {}
      [] resp.call = "cpu" -> CpuBreach(resp.r)
      [] resp.call = "memory" -> MemBreach(resp.r, LastInstance)
      [] resp.call = "disk" -> DiskBreach(resp.r, LastInstance)
      [] resp.call = "fota" ->
            resp.r.ok /\ ~(resp.r.status_code = 200 /\ IsDigit(Strip(resp.r.text)))
      [] OTHER -> FALSE

\* an external call of the last step raised, in the Beanstalk, FOTA or MQTT
\* check (up to the browser steps; driver.quit() apart)
CheckFailed ==
    CASE resp.call \in {"describe_environments", "fota"} -> ~resp.r.ok
      [] resp.call = "mqtt" -> BothCredentials /\ resp.r.stage # "none"
      [] OTHER -> FALSE

\* an external call of the last step raised in the CPU, memory or disk
\* block of monitor_ec2
Ec2Failed ==
    CASE resp.call = "cpu" -> ~resp.r.ok
      [] resp.call = "memory" -> MemFailed(resp.r, LastInstance)
      [] resp.call = "disk" -> DiskFailed(resp.r, LastInstance)
      [] OTHER -> FALSE

\* C4 as stated: whenever a metric is above its threshold or an external
\* call of the Beanstalk, EC2 CPU/memory/disk, FOTA or MQTT check raises,
\* the step appends a record.
C4_Original ==
    (Breach \/ CheckFailed \/ Ec2Failed) => RecordsBy(LastCall) # {}

\* C4 amended: a step appends a record whenever it meets a breach or a
\* call of the Beanstalk, FOTA or MQTT check raises; a raised call in the
\* CPU, memory or disk block of monitor_ec2 is only printed and appends no
\* record; records once appended are never removed or changed.
C4_Noted ==
    /\ [](/\ (Breach \/ CheckFailed) => RecordsBy(LastCall) # {}
          /\ Ec2Failed => RecordsBy(LastCall) = {})
    /\ [][IsPrefix(issues, issues') /\ IsPrefix(origin, origin')]_vars

\* the FOTA request raised and its record was appended after an EC2 record
C4_Witness ==
    /\ resp.call = "fota"
    /\ ~resp.r.ok
    /\ RecordsBy(LastCall) # {}
    /\ RecordsOfType("EC2") # {}

-----------------------------------------------------------------------------
(* C9 *)

\* C9: when the run has ended, urgency is "high" exactly when the subject
\* is the Issues Detected subject and "normal" exactly when it is All
\* Systems Healthy, and print_summary printed "No issues detected" exactly
\* when the subject is All Systems Healthy.
C9_SignalsAgree ==
    pc = "done" =>
        /\ published[1].urgency = "high"
             <=> published[1].Subject.text = "Issues Detected"
        /\ published[1].urgency = "normal"
             <=> published[1].Subject.text = "All Systems Healthy"
        /\ summary.kind = "healthy"
             <=> published[1].Subject.text = "All Systems Healthy"

====
